---- MODULE Spec2Model ----
(***************************************************************************)
(* Model of the App component of src/App.tsx: the six useState cells, the  *)
(* three refs, the camera useEffect with its cleanup, and the handlers     *)
(* handleFileChange, handleTakePhoto and handleGenerateClick, each split   *)
(* at its await into the synchronous part and the continuation.            *)
(*                                                                         *)
(* Strings are sequences of tokens; a comma is always a token of its own,  *)
(* so that String.split(',') is computed, not assumed.  A nullable value   *)
(* is None (null) or Some(v).                                              *)
(***************************************************************************)
EXTENDS Integers, Sequences, FiniteSets, TLC

\* ------------------------------------------------------------------ bounds
MaxStreams == 2     \* getUserMedia calls over a run
MaxReads == 2       \* file reads pending at once
MaxRequests == 2    \* editImage calls pending at once

\* ------------------------------------------------------- values and strings
None == <<>>
Some(v) == <<v>>

Comma == ","

IndexOfFrom(s, c, i) ==
  LET hits == {j \in i..Len(s) : s[j] = c}
  IN IF hits = {} THEN 0 ELSE CHOOSE j \in hits : \A k \in hits : j <= k

RECURSIVE Split(_, _)
\* String.prototype.split(sep): the pieces between the separators.
Split(s, sep) ==
  LET i == IndexOfFrom(s, sep, 1)
  IN IF i = 0 THEN <<s>>
     ELSE <<SubSeq(s, 1, i - 1)>> \o Split(SubSeq(s, i + 1, Len(s)), sep)

\* Faulty variant: the first piece, x.split(',')[0].
SplitHead(s) == Some(Split(s, Comma)[1])

\* x.split(',')[1]: the second piece, undefined (None) when there is none.
SplitBody(s) ==
  LET pieces == Split(s, Comma)
  IN IF Len(pieces) >= 2 THEN Some(pieces[2]) ELSE None

StartsWith(s, p) == Len(s) >= Len(p) /\ SubSeq(s, 1, Len(p)) = p

ImagePrefix == <<"image/">>

\* ------------------------------------------------------------------ inputs
\* What FileReader.readAsDataURL yields for a file of the given type.
DataUrl(type, payload) == <<"data:">> \o type \o <<";base64", Comma>> \o payload

PngType == <<"image/", "png">>
GifType == <<"image/", "gif">>
TextType == <<"text/", "plain">>

\* The files the picker can hand over: name, declared type, and the data URL
\* FileReader yields for it when the read succeeds.
Files ==
  { [name |-> "red.png", type |-> PngType, url |-> DataUrl(PngType, <<"iVBORw">>)],
    [name |-> "cat.gif", type |-> GifType, url |-> DataUrl(GifType, <<"R0lGOD">>)],
    [name |-> "notes.txt", type |-> TextType, url |-> DataUrl(TextType, <<"aGk=">>)],
    [name |-> "unknown.bin", type |-> <<>>, url |-> DataUrl(<<>>, <<"AAE=">>)] }

DefaultPrompt == "Convert the face in the image into a SpongeBob-style face; however, the face should stay human. The face should look realistic and have subtle changes, like a slightly yellow face with a few holes, goofy teeth, bigger eyes, and a smile, while also keeping the background."

\* What the user can type into the prompt textarea.
Prompts == {"", DefaultPrompt}

\* Date.now() at the time of a capture.
Times == {"1700000000000"}

\* What the video element shows: no frame yet (videoWidth = 0), or a frame.
Frames == {<<"/9j/4A">>}

\* Outcomes of editImage: a payload (possibly empty), null, or a throw.
Reasons == {"quota exceeded", "network down"}
EditOutcomes ==
  { [kind |-> "returns", value |-> Some(<<"QUJD">>), message |-> ""],
    [kind |-> "returns", value |-> Some(<<>>), message |-> ""],
    [kind |-> "returns", value |-> None, message |-> ""] }
  \cup { [kind |-> "throws", value |-> None, message |-> r] : r \in Reasons }

\* ---------------------------------------------------------------- messages
MsgInvalidFile == <<"Please upload a valid image file (PNG, JPG, etc.).">>
MsgReadFailed == <<"Failed to read the image file.">>
MsgCamera == <<"Could not access the camera. Please check permissions and try again.">>
MsgNeedInput == <<"Please upload an image and provide a prompt.">>
MsgNoImage == "The model did not return an image. Please try a different prompt."
MsgErrorOccurred(message) == <<"An error occurred: ", message>>
PngUrlPrefix == <<"data:image/png;base64", Comma>>
JpegType == <<"image/", "jpeg">>

\* --------------------------------------------------- queued state updates
\* A call of a state setter is an update; React applies the updates at the
\* next render.  A handler of a user event is followed by its render at
\* once.  The continuation of an await and a promise callback return to the
\* event loop first: their updates stay queued, and other callbacks may run,
\* until React renders.  An update record holds, per cell, None (no setter
\* call) or Some(v) (the last call was with v).
NoUpdates ==
  [originalImage |-> None, editedImage |-> None, isLoading |-> None,
   error |-> None, isCameraOpen |-> None]

\* setX(v)
Set(v) == Some(v)

Later(a, b) == IF b # None THEN b ELSE a

\* The updates w made after the updates q: per cell the later call wins.
Over(q, w) ==
  [originalImage |-> Later(q.originalImage, w.originalImage),
   editedImage |-> Later(q.editedImage, w.editedImage),
   isLoading |-> Later(q.isLoading, w.isLoading),
   error |-> Later(q.error, w.error),
   isCameraOpen |-> Later(q.isCameraOpen, w.isCameraOpen)]

\* The value of a cell holding cur once the update u is applied.
Value(u, cur) == IF u # None THEN u[1] ELSE cur

\* ------------------------------------------------------------------- state
VARIABLES
  originalImage,  \* useState: None or Some([base64, mimeType, name])
  editedImage,    \* useState: None or Some(data URL)
  prompt,         \* useState
  isLoading,      \* useState
  error,          \* useState: None or Some(message)
  isCameraOpen,   \* useState
  streamRef,      \* useRef: None or Some(index into streams)
  videoSrc,       \* srcObject of the mounted <video>: None or Some(index)
  streams,        \* one entry per getUserMedia call, in call order
  reads,          \* pending fileToBase64 calls: the file of each
  requests,       \* pending editImage calls: the arguments of each
  mounted,        \* the component is mounted
  queued,         \* the state updates made since the last render, not yet
                  \* rendered
  effectsPending, \* the last render changed isCameraOpen and React has not
                  \* yet run the camera effect for it
  readStale       \* history (recorded under HistorySpec only), one flag per
                  \* pending read: an image selected or captured after that
                  \* read was started has been stored since

uiState == <<originalImage, editedImage, prompt, isLoading, error, isCameraOpen>>
camState == <<streamRef, videoSrc, streams, effectsPending>>
vars == <<originalImage, editedImage, prompt, isLoading, error, isCameraOpen,
          streamRef, videoSrc, streams, reads, requests, mounted, queued,
          effectsPending, readStale>>

Init ==
  /\ originalImage = None
  /\ editedImage = None
  /\ prompt = DefaultPrompt
  /\ isLoading = FALSE
  /\ error = None
  /\ isCameraOpen = FALSE
  /\ streamRef = None
  /\ videoSrc = None
  /\ streams = <<>>
  /\ reads = <<>>
  /\ requests = <<>>
  /\ mounted = TRUE
  /\ queued = NoUpdates
  /\ effectsPending = FALSE
  /\ readStale = <<>>

\* videoRef.current: the <video> is rendered only inside {isCameraOpen && ...}.
VideoMounted == mounted /\ isCameraOpen

RemoveAt(s, i) == SubSeq(s, 1, i - 1) \o SubSeq(s, i + 1, Len(s))

\* ------------------------------------------------------- the camera effect
\* The effect's cleanup: stop the tracks of streamRef.current, if any.
StopTracks(ref, strs) ==
  IF ref = None THEN strs
  ELSE [strs EXCEPT ![ref[1]].stops = @ + 1]

CleanupRef(ref) == None

\* The effect body: when the camera is open, one more getUserMedia call.
RunEffect(open, strs) ==
  IF open THEN Append(strs, [status |-> "pending", stops |-> 0]) ELSE strs

\* streamRef.current and the getUserMedia calls once the effects a render
\* left pending have run: the previous effect's cleanup, then the effect for
\* the rendered isCameraOpen.
FlushedRef == IF effectsPending THEN CleanupRef(streamRef) ELSE streamRef
FlushedStreams ==
  IF effectsPending THEN RunEffect(isCameraOpen, StopTracks(streamRef, streams))
  ELSE streams

\* A render with isCameraOpen equal to v.  React first runs the effects the
\* render before left pending.  When the value changes the <video> is
\* (un)mounted in the commit; the previous effect's cleanup and the effect
\* run in the same task when the render is that of a user event (atOnce),
\* and are left pending for a later task otherwise.  The same value leaves
\* the effect alone.
SetIsCameraOpen(v, atOnce) ==
  /\ isCameraOpen' = v
  /\ IF v = isCameraOpen
       THEN /\ streams' = FlushedStreams
            /\ streamRef' = FlushedRef
            /\ effectsPending' = FALSE
            /\ UNCHANGED videoSrc
       ELSE /\ videoSrc' = None
            /\ IF atOnce
                 THEN /\ streams' = RunEffect(v, StopTracks(FlushedRef, FlushedStreams))
                      /\ streamRef' = CleanupRef(FlushedRef)
                      /\ effectsPending' = FALSE
                 ELSE /\ streams' = FlushedStreams
                      /\ streamRef' = FlushedRef
                      /\ effectsPending' = TRUE

\* A render: the queued updates are applied, then the updates w of the
\* handler it follows, and nothing stays queued.
Render(w, atOnce) ==
  LET u == Over(queued, w)
  IN /\ originalImage' = Value(u.originalImage, originalImage)
     /\ editedImage' = Value(u.editedImage, editedImage)
     /\ isLoading' = Value(u.isLoading, isLoading)
     /\ error' = Value(u.error, error)
     /\ SetIsCameraOpen(Value(u.isCameraOpen, isCameraOpen), atOnce)
     /\ queued' = NoUpdates

\* The render that follows a user-event handler which made the updates w.
RenderNow(w) == Render(w, TRUE)

\* The updates w made by a continuation or promise callback: queued, nothing
\* rendered.  State setters of an unmounted component change nothing.
Enqueue(w) ==
  /\ queued' = IF mounted THEN Over(queued, w) ELSE queued
  /\ UNCHANGED <<originalImage, editedImage, isLoading, error, isCameraOpen>>

\* React renders the queued updates, no handler having run since they were
\* made.  The camera effect of this render is not run in the same task.
RenderPending ==
  /\ mounted /\ queued # NoUpdates
  /\ Render(NoUpdates, FALSE)
  /\ UNCHANGED <<prompt, reads, requests, mounted>>

\* React runs the camera effect a render left pending: the cleanup stops the
\* tracks of streamRef.current and clears it, then the effect runs for the
\* rendered isCameraOpen.
RunPendingEffects ==
  /\ mounted /\ effectsPending
  /\ streams' = FlushedStreams
  /\ streamRef' = FlushedRef
  /\ effectsPending' = FALSE
  /\ UNCHANGED <<uiState, videoSrc, reads, requests, mounted, queued>>

\* Whether a change of isCameraOpen to v calls getUserMedia.
Acquires(v) == v /\ ~isCameraOpen

\* Faulty variant: opening the camera also drops the image held.
OpenCameraClearingImage ==
  /\ mounted
  /\ Acquires(TRUE) => Len(streams) < MaxStreams
  /\ RenderNow([NoUpdates EXCEPT !.isCameraOpen = Set(TRUE), !.originalImage = Set(None)])
  /\ UNCHANGED <<prompt, reads, requests, mounted>>

\* onClick of the Camera button
OpenCamera ==
  /\ mounted
  /\ Acquires(TRUE) => Len(streams) < MaxStreams
  /\ RenderNow([NoUpdates EXCEPT !.isCameraOpen = Set(TRUE)])
  /\ UNCHANGED <<prompt, reads, requests, mounted>>

\* onClick of the Cancel button, rendered while the camera is open
CancelCamera ==
  /\ mounted /\ isCameraOpen
  /\ RenderNow([NoUpdates EXCEPT !.isCameraOpen = Set(FALSE)])
  /\ UNCHANGED <<prompt, reads, requests, mounted>>

\* if (videoRef.current) in the then-callback
AttachesStream == VideoMounted

\* getUserMedia(...).then(stream => ...)
AcquireResolves(i) ==
  /\ streams[i].status = "pending"
  /\ streams' = [streams EXCEPT ![i].status = "acquired"]
  /\ IF AttachesStream
       THEN videoSrc' = Some(i) /\ streamRef' = Some(i)
       ELSE UNCHANGED <<videoSrc, streamRef>>
  /\ UNCHANGED <<uiState, reads, requests, mounted, queued, effectsPending>>

\* Faulty variant: the catch callback reports the error and leaves the camera
\* open.
CameraOpenKeptAfterReject == isCameraOpen

\* setIsCameraOpen(false) in the catch callback
CameraOpenAfterReject == FALSE

\* getUserMedia(...).catch(err => ...): the callback makes its two updates
\* and returns; until the render the <video> stays mounted and the effect's
\* cleanup has not run.
AcquireRejects(i) ==
  /\ streams[i].status = "pending"
  /\ streams' = [streams EXCEPT ![i].status = "failed"]
  /\ Enqueue([NoUpdates EXCEPT !.error = Set(Some(MsgCamera)),
                               !.isCameraOpen = Set(CameraOpenAfterReject)])
  /\ UNCHANGED <<prompt, streamRef, videoSrc, effectsPending, reads, requests, mounted>>

\* The component is torn down: the effects still pending run, the effect's
\* cleanup runs a last time, and the updates still queued are dropped.
Unmount ==
  /\ mounted
  /\ mounted' = FALSE
  /\ streams' = StopTracks(FlushedRef, FlushedStreams)
  /\ streamRef' = CleanupRef(FlushedRef)
  /\ videoSrc' = None
  /\ effectsPending' = FALSE
  /\ queued' = NoUpdates
  /\ UNCHANGED <<uiState, reads, requests>>

\* -------------------------------------------------------- handleFileChange
\* Faulty variant: the check accepts any file that declares a type.
IsImageFileAnyType(f) == f.type # <<>>

\* file.type.startsWith('image/')
IsImageFile(f) == StartsWith(f.type, ImagePrefix)

\* The updates handleFileChange makes when it rejects the file's type.
RejectFile == [NoUpdates EXCEPT !.error = Set(Some(MsgInvalidFile))]

\* The updates of the synchronous part for an image file, up to the await
\* of fileToBase64.
StartRead == [NoUpdates EXCEPT !.error = Set(None), !.editedImage = Set(None)]

\* handleFileChange up to its await; file is None when the change event
\* carries no file.
handleFileChange(file) ==
  /\ mounted
  /\ IF file = None
       THEN UNCHANGED <<originalImage, editedImage, isLoading, error, isCameraOpen,
                        camState, queued, reads>>
       ELSE IF ~IsImageFile(file[1])
              THEN RenderNow(RejectFile) /\ UNCHANGED reads
              ELSE /\ Len(reads) < MaxReads
                   /\ RenderNow(StartRead)
                   /\ reads' = Append(reads, file[1])
  /\ UNCHANGED <<prompt, requests, mounted>>

\* fileToBase64(file): resolves with the data URL of the file when the read
\* succeeds (ok), rejects (None) when it fails.
fileToBase64(f, ok) == IF ok THEN Some(f.url) ELSE None

\* The image stored for a file read as dataUrl.
ImageOfFile(f, dataUrl) ==
  [base64 |-> SplitBody(dataUrl), mimeType |-> f.type, name |-> <<f.name>>]

\* What the catch block of handleFileChange stores as originalImage.
OriginalAfterReadFailure == None

\* The updates of handleFileChange after its await, r being what
\* fileToBase64 settled with.
ReadUpdates(f, r) ==
  IF r # None
    THEN [NoUpdates EXCEPT !.originalImage = Set(Some(ImageOfFile(f, r[1])))]
    ELSE [NoUpdates EXCEPT !.error = Set(Some(MsgReadFailed)),
                           !.originalImage = Set(OriginalAfterReadFailure)]

\* handleFileChange after its await.
ReadSettles(i, ok) ==
  /\ i \in 1..Len(reads)
  /\ reads' = RemoveAt(reads, i)
  /\ Enqueue(ReadUpdates(reads[i], fileToBase64(reads[i], ok)))
  /\ UNCHANGED <<prompt, camState, requests, mounted>>

\* --------------------------------------------------------- handleTakePhoto
\* canvas.toDataURL('image/jpeg') of a canvas holding frame; a canvas of
\* width 0 (no frame) serialises to "data:,".
ToDataURL(frame) ==
  IF frame = None THEN <<"data:", Comma>>
  ELSE <<"data:image/jpeg;base64", Comma>> \o frame[1]

\* The frames the <video> can hold: none while it has no stream or has not
\* loaded its metadata (videoWidth = 0).
VideoFrames == IF videoSrc = None THEN {None} ELSE {None} \cup {Some(fr) : fr \in Frames}

CapturedImage(frame, now) ==
  [base64 |-> SplitBody(ToDataURL(frame)), mimeType |-> JpegType,
   name |-> <<"webcam-photo-", now, ".jpg">>]

\* What handleTakePhoto stores as editedImage.
EditedAfterCapture == None

\* Faulty variant: handleTakePhoto leaves the error as it is.
ErrorKeptAfterCapture == error

\* What handleTakePhoto stores as error.
ErrorAfterCapture == None

\* onClick of the Snap Photo button, rendered while the camera is open; the
\* <video> and the <canvas> are then mounted and the 2d context exists.
handleTakePhoto(frame, now) ==
  /\ VideoMounted
  /\ frame \in VideoFrames
  /\ RenderNow([originalImage |-> Set(Some(CapturedImage(frame, now))),
             editedImage |-> Set(EditedAfterCapture),
             isLoading |-> None,
             error |-> Set(ErrorAfterCapture),
             isCameraOpen |-> Set(FALSE)])
  /\ UNCHANGED <<prompt, reads, requests, mounted>>

\* ------------------------------------------------------------------ prompt
\* onChange of the prompt textarea
SetPrompt(p) ==
  /\ mounted
  /\ prompt' = p
  /\ RenderNow(NoUpdates)
  /\ UNCHANGED <<reads, requests, mounted>>

\* ----------------------------------------------------- handleGenerateClick
\* Faulty variant: the button is disabled on a missing image only.
GenerateDisabledNoLoading == originalImage = None

\* disabled={isLoading || !originalImage} of the Sponge-ify button
GenerateDisabled == isLoading \/ originalImage = None

\* Faulty variant: the guard tests the prompt only.
MissingInputPromptOnly == prompt = ""

\* if (!originalImage || !prompt)
MissingInput == originalImage = None \/ prompt = ""

\* The arguments editImage is called with.
EditRequest == [base64 |-> originalImage[1].base64, mimeType |-> originalImage[1].mimeType,
                instructions |-> prompt]

\* Faulty variant: the submit leaves the edited result displayed before.
EditedKeptAfterSubmit == editedImage

\* setEditedImage(null) before the await
EditedAfterSubmit == None

\* The updates made between the guard and the try block.
SubmitUpdates ==
  [NoUpdates EXCEPT !.isLoading = Set(TRUE), !.error = Set(None),
                    !.editedImage = Set(EditedAfterSubmit)]

\* if (generatedImageBase64): null and the empty string are falsy.
Truthy(v) == v # None /\ v[1] # <<>>

\* Faulty variant: only null counts as a missing image (the empty string passes).
ReturnsImageNotNull(o) == o.kind = "returns" /\ o.value # None

\* The await returned and the if (generatedImageBase64) branch is taken.
ReturnsImage(o) == o.kind = "returns" /\ Truthy(o.value)

\* err.message in the catch block: of the Error thrown for a missing image,
\* or of what editImage threw.
CaughtMessage(o) == IF o.kind = "returns" THEN MsgNoImage ELSE o.message

\* Faulty variant: the payload is stored without the data-URL prefix.
EditedUrlBare(payload) == payload

\* `data:image/png;base64,${generatedImageBase64}`
EditedUrl(payload) == PngUrlPrefix \o payload

\* Faulty variant: setIsLoading(false) at the end of the try block, not in finally.
LoadingAfterSettleTryOnly(o) == IF ReturnsImage(o) THEN FALSE ELSE isLoading

\* isLoading after the finally block.
LoadingAfterSettle(o) == FALSE

\* The updates of handleGenerateClick after its await: try or catch, then
\* finally.
EditUpdates(o) ==
  IF ReturnsImage(o)
    THEN [NoUpdates EXCEPT !.editedImage = Set(Some(EditedUrl(o.value[1]))),
                           !.isLoading = Set(LoadingAfterSettle(o))]
    ELSE [NoUpdates EXCEPT !.error = Set(Some(MsgErrorOccurred(CaughtMessage(o)))),
                           !.isLoading = Set(LoadingAfterSettle(o))]

\* Reading originalImage.base64 of a null originalImage, inside the try
\* block, throws before editImage is called.
NullImageThrown ==
  [kind |-> "throws", value |-> None,
   message |-> "Cannot read properties of null (reading 'base64')"]

\* Whether handleGenerateClick gets to call editImage.
CallsEditImage == ~MissingInput /\ originalImage # None

\* The updates handleGenerateClick makes up to its await of editImage.  Past
\* the guard, a null originalImage makes the handler run its catch and
\* finally blocks without calling editImage.
GenerateUpdates ==
  IF MissingInput THEN [NoUpdates EXCEPT !.error = Set(Some(MsgNeedInput))]
  ELSE IF originalImage = None THEN Over(SubmitUpdates, EditUpdates(NullImageThrown))
  ELSE SubmitUpdates

\* handleGenerateClick up to its await of editImage; originalImage and
\* prompt are those of the render the handler was created in.  Called in a
\* React event (inEvent) its updates are rendered when it returns; called
\* outside one they are queued, like those of a continuation.
handleGenerateClick(inEvent) ==
  /\ mounted
  /\ IF inEvent
       THEN RenderNow(GenerateUpdates)
       ELSE Enqueue(GenerateUpdates) /\ UNCHANGED camState
  /\ IF CallsEditImage
       THEN /\ Len(requests) < MaxRequests
            /\ requests' = Append(requests, EditRequest)
       ELSE UNCHANGED requests
  /\ UNCHANGED <<prompt, reads, mounted>>

\* onClick of the Sponge-ify button: a disabled button delivers no click.
ClickGenerate == ~GenerateDisabled /\ handleGenerateClick(TRUE)

\* handleGenerateClick after its await, for request i settling with o.
EditSettles(i, o) ==
  /\ i \in 1..Len(requests)
  /\ requests' = RemoveAt(requests, i)
  /\ Enqueue(EditUpdates(o))
  /\ UNCHANGED <<prompt, camState, reads, mounted>>

\* ---------------------------------------------------------- specification
SelectFile == \E file \in {None} \cup {Some(f) : f \in Files} : handleFileChange(file)
ReadDone == \E i \in 1..Len(reads), ok \in BOOLEAN : ReadSettles(i, ok)
SnapPhoto == \E frame \in {None} \cup {Some(fr) : fr \in Frames}, now \in Times : handleTakePhoto(frame, now)
AcquireDone == \E i \in 1..Len(streams) : AcquireResolves(i)
AcquireFailed == \E i \in 1..Len(streams) : AcquireRejects(i)
EditPrompt == \E p \in Prompts : SetPrompt(p)
EditDone == \E i \in 1..Len(requests), o \in EditOutcomes : EditSettles(i, o)

Next ==
  \/ SelectFile /\ UNCHANGED readStale
  \/ ReadDone /\ UNCHANGED readStale
  \/ OpenCamera /\ UNCHANGED readStale
  \/ CancelCamera /\ UNCHANGED readStale
  \/ SnapPhoto /\ UNCHANGED readStale
  \/ AcquireDone /\ UNCHANGED readStale
  \/ AcquireFailed /\ UNCHANGED readStale
  \/ EditPrompt /\ UNCHANGED readStale
  \/ ClickGenerate /\ UNCHANGED readStale
  \/ EditDone /\ UNCHANGED readStale
  \/ RenderPending /\ UNCHANGED readStale
  \/ RunPendingEffects /\ UNCHANGED readStale
  \/ Unmount /\ UNCHANGED readStale

Spec == Init /\ [][Next]_vars

\* The flags of the reads left pending once read i has settled, stored
\* telling whether its image was stored: the reads started before it are
\* then stale.
StaleAfterRead(i, stored) ==
  RemoveAt([j \in 1..Len(readStale) |-> readStale[j] \/ (stored /\ j < i)], i)

\* The same steps, with the history of the pending reads recorded: a read
\* starts fresh, and becomes stale when the image of a later selection or a
\* captured photo is stored.
SelectFileH ==
  /\ SelectFile
  /\ readStale' = IF Len(reads') > Len(reads) THEN Append(readStale, FALSE) ELSE readStale
ReadDoneH ==
  \E i \in 1..Len(reads), ok \in BOOLEAN :
    ReadSettles(i, ok) /\ readStale' = StaleAfterRead(i, mounted /\ ok)
SnapPhotoH == SnapPhoto /\ readStale' = [j \in 1..Len(readStale) |-> TRUE]

NextH ==
  \/ SelectFileH
  \/ ReadDoneH
  \/ OpenCamera /\ UNCHANGED readStale
  \/ CancelCamera /\ UNCHANGED readStale
  \/ SnapPhotoH
  \/ AcquireDone /\ UNCHANGED readStale
  \/ AcquireFailed /\ UNCHANGED readStale
  \/ EditPrompt /\ UNCHANGED readStale
  \/ ClickGenerate /\ UNCHANGED readStale
  \/ EditDone /\ UNCHANGED readStale
  \/ RenderPending /\ UNCHANGED readStale
  \/ RunPendingEffects /\ UNCHANGED readStale
  \/ Unmount /\ UNCHANGED readStale

HistorySpec == Init /\ [][NextH]_vars

\* handleGenerateClick called while no image is rendered.  The button is
\* then disabled and delivers no click of its own: the call is made on the
\* handler, in a click event forced on the button or outside any event.  No
\* event of the running component makes this call.
CallWithoutImage ==
  originalImage = None /\ \E inEvent \in BOOLEAN : handleGenerateClick(inEvent)

\* The same steps, and the handler called with no image held.
NextCall ==
  \/ Next
  \/ CallWithoutImage /\ UNCHANGED readStale

HandlerSpec == Init /\ [][NextCall]_vars

\* The remote call of every submitted request eventually settles, and React
\* eventually renders the updates that are queued.
LiveSpec ==
  /\ Spec
  /\ WF_vars(EditDone /\ UNCHANGED readStale)
  /\ WF_vars(RenderPending /\ UNCHANGED readStale)

\* ------------------------------------------------------------------ claims
Indices == 1..Len(streams)
CameraLeftOpen == ~mounted \/ ~isCameraOpen
NoPendingAcquisition == \A i \in Indices : streams[i].status # "pending"

\* The state cells as React renders them next when no handler runs before
\* that render: the queued updates applied to the cells.
Due ==
  [originalImage |-> IF queued.originalImage # None THEN queued.originalImage[1] ELSE originalImage,
   editedImage |-> IF queued.editedImage # None THEN queued.editedImage[1] ELSE editedImage,
   isLoading |-> IF queued.isLoading # None THEN queued.isLoading[1] ELSE isLoading,
   error |-> IF queued.error # None THEN queued.error[1] ELSE error,
   isCameraOpen |-> IF queued.isCameraOpen # None THEN queued.isCameraOpen[1] ELSE isCameraOpen]

\* The cells as they are rendered.
Shown ==
  [originalImage |-> originalImage, editedImage |-> editedImage, isLoading |-> isLoading,
   error |-> error, isCameraOpen |-> isCameraOpen]

\* A continuation or promise callback changes no cell itself, and the
\* render of the queued updates makes the cells what was due.
QueuedThenRendered ==
  /\ (ReadDone \/ EditDone \/ AcquireFailed) => Shown' = Shown
  /\ RenderPending => (Shown' = Due /\ queued' = NoUpdates)

\* Nothing is queued: the cells are as rendered.
Rendered == mounted /\ queued = NoUpdates

\* C1: every acquired device stream is stopped exactly once: no stream is
\* ever stopped twice, and once the camera has left OPEN (capture, cancel or
\* teardown) and no acquisition is pending, every acquired stream has been
\* stopped.
C1_StreamsStoppedExactlyOnce ==
  /\ \A i \in Indices : streams[i].stops <= 1
  /\ (CameraLeftOpen /\ NoPendingAcquisition)
       => \A i \in Indices : streams[i].status = "acquired" => streams[i].stops = 1

\* C2: at most one edit request is in flight in every reachable state.
C2_OneRequestInFlight == Len(requests) <= 1

\* C2 witness: a request is in flight for a present image and the button
\* that would submit another is disabled.
C2_Witness ==
  /\ mounted /\ Len(requests) = 1 /\ isLoading
  /\ originalImage # None /\ prompt # ""

\* C3: while the component is mounted, isLoading is true as long as a
\* submitted request has not settled; when the request settles, whatever
\* the outcome, isLoading is due to be false and is false in the state
\* React renders next; and, the remote call eventually settling and React
\* eventually rendering, isLoading eventually becomes false.
C3_LoadingUntilSettled ==
  /\ []((mounted /\ requests # <<>>) => isLoading)
  /\ [][/\ (mounted /\ Len(requests') < Len(requests)) => ~Due'.isLoading
        /\ (mounted /\ mounted' /\ queued.isLoading # None /\ queued' = NoUpdates)
             => ~isLoading'
        /\ QueuedThenRendered]_vars
  /\ ((mounted /\ isLoading) ~> (~isLoading \/ ~mounted))

\* C3 witness: a request that failed has settled, its updates are rendered
\* and isLoading is false.
C3_Witness ==
  /\ Rendered /\ ~isLoading /\ requests = <<>>
  /\ \E r \in Reasons : error = Some(<<"An error occurred: ", r>>)

ReadFails == \E i \in 1..Len(reads) : ReadSettles(i, FALSE)
ReadSucceeds == \E i \in 1..Len(reads) : ReadSettles(i, TRUE)

\* C4: when the read of an accepted file fails, error becomes the
\* read-failure message and the failure clears no image state: originalImage
\* and editedImage are due to be what they were due to be before.
C4_ReadFailureKeepsImages ==
  [][(mounted /\ ReadFails)
       => /\ Due'.error = Some(<<"Failed to read the image file.">>)
          /\ Due'.originalImage = Due.originalImage
          /\ Due'.editedImage = Due.editedImage]_vars

\* C5: selecting a file whose declared type does not start with 'image/'
\* sets error and starts no file read; it makes no update of originalImage,
\* editedImage, isLoading, prompt and isCameraOpen: they are as they were,
\* the updates that were queued at the time applied.
C5_NonImageRejected ==
  [][\A f \in Files :
       (handleFileChange(Some(f)) /\ ~StartsWith(f.type, <<"image/">>))
         => /\ error' = Some(<<"Please upload a valid image file (PNG, JPG, etc.).">>)
            /\ originalImage' = Due.originalImage
            /\ editedImage' = Due.editedImage
            /\ isLoading' = Due.isLoading
            /\ isCameraOpen' = Due.isCameraOpen
            /\ prompt' = prompt
            /\ reads' = reads]_vars

\* C5 witness: a non-image file was rejected while an image and an edited
\* result were held.
C5_Witness ==
  /\ error = Some(<<"Please upload a valid image file (PNG, JPG, etc.).">>)
  /\ originalImage # None /\ editedImage # None /\ reads = <<>>

\* The images of the files that can be selected.
FileNames == {<<f.name>> : f \in Files}

\* C6: in the state in which originalImage becomes the image of a newly
\* selected file, editedImage and error are absent.
C6_SelectionAtomic ==
  [][(originalImage' # originalImage /\ originalImage' # None
        /\ originalImage'[1].name \in FileNames)
       => (editedImage' = None /\ error' = None)]_vars

\* C7: a call of the submit-edit handler made when originalImage is absent
\* or prompt is empty makes error due to be the message, starts no remote
\* call, makes no update of isLoading (false before, it is false after), and
\* makes no update of editedImage and originalImage.  Made in an event, the
\* call is followed at once by the render of what is due; made outside one,
\* it changes no cell itself and the next render shows what is due.
C7_GuardedSubmit ==
  [][/\ \A inEvent \in BOOLEAN :
          (handleGenerateClick(inEvent) /\ (originalImage = None \/ prompt = ""))
            => /\ Due'.error = Some(<<"Please upload an image and provide a prompt.">>)
               /\ requests' = requests
               /\ Due'.isLoading = Due.isLoading
               /\ ~isLoading => ~isLoading'
               /\ Due'.editedImage = Due.editedImage
               /\ Due'.originalImage = Due.originalImage
               /\ Shown' = IF inEvent THEN Due' ELSE Shown
     /\ QueuedThenRendered]_vars

\* C7 witness: with no image held and a prompt given, the handler was called
\* outside an event and has refused the submit: the message is queued, no
\* request was made and isLoading is false.
C7_Witness ==
  /\ mounted /\ originalImage = None /\ prompt # ""
  /\ queued.error = Some(Some(<<"Please upload an image and provide a prompt.">>))
  /\ Due.originalImage = None /\ Due.editedImage = None
  /\ requests = <<>> /\ ~isLoading /\ ~Due.isLoading

\* C8: a snap-photo taken while the camera is open sets, in one step,
\* originalImage to a captured image of type image/jpeg named after the
\* capture time, editedImage and error to absent and isCameraOpen to false,
\* and makes no update of prompt and isLoading.
C8_SnapPhoto ==
  [][\A frame \in {None} \cup {Some(fr) : fr \in Frames}, now \in Times :
       (isCameraOpen /\ handleTakePhoto(frame, now))
         => /\ originalImage' # None
            /\ originalImage'[1].mimeType = <<"image/", "jpeg">>
            /\ originalImage'[1].name = <<"webcam-photo-", now, ".jpg">>
            /\ editedImage' = None
            /\ error' = None
            /\ ~isCameraOpen'
            /\ prompt' = prompt
            /\ isLoading' = Due.isLoading]_vars

\* C8 witness: a photo of a live frame has been captured, the camera is
\* closed and its stream stopped, and nothing is displayed as result or error.
C8_Witness ==
  /\ originalImage # None
  /\ originalImage[1].mimeType = <<"image/", "jpeg">>
  /\ originalImage[1].base64 = Some(<<"/9j/4A">>)
  /\ ~isCameraOpen /\ editedImage = None /\ error = None
  /\ \E i \in Indices : streams[i].status = "acquired" /\ streams[i].stops = 1

\* C9: when a request settles with a non-empty payload, editedImage is due
\* to become 'data:image/png;base64,' followed by the payload and error is
\* not written; when it settles with a failure of message m, error is due
\* to become 'An error occurred: ' followed by m and editedImage is not
\* written; the next render shows what is due.
C9_SettleWritesOneField ==
  [][/\ \A i \in 1..Len(requests), o \in EditOutcomes :
          (mounted /\ EditSettles(i, o))
            => /\ (o.kind = "returns" /\ o.value # None /\ o.value # Some(<<>>))
                    => /\ Due'.editedImage = Some(<<"data:image/png;base64", ",">> \o o.value[1])
                       /\ Due'.error = Due.error
               /\ (o.kind = "throws")
                    => /\ Due'.error = Some(<<"An error occurred: ", o.message>>)
                       /\ Due'.editedImage = Due.editedImage
     /\ QueuedThenRendered]_vars

\* C9 witness: a request has settled with a payload, which is displayed as a
\* PNG data URL.
C9_Witness ==
  /\ Rendered /\ ~isLoading /\ requests = <<>> /\ error = None
  /\ editedImage = Some(<<"data:image/png;base64", ",", "QUJD">>)

\* C10: when the remote call returns no image payload (null or the empty
\* string), editedImage stays absent and error is due to become a message
\* that suggests a different prompt and differs from the message of every
\* transport failure; the next render shows what is due.
C10_NoResultIsFailure ==
  [][/\ \A i \in 1..Len(requests), o \in EditOutcomes :
          (mounted /\ EditSettles(i, o) /\ o.kind = "returns"
             /\ (o.value = None \/ o.value = Some(<<>>)))
            => /\ editedImage = None /\ Due'.editedImage = None
               /\ Due'.error = Some(<<"An error occurred: ",
                                      "The model did not return an image. Please try a different prompt.">>)
               /\ \A r \in EditOutcomes :
                    r.kind = "throws" => Due'.error # Some(MsgErrorOccurred(CaughtMessage(r)))
     /\ QueuedThenRendered]_vars

\* C10 witness: a request has settled without a payload.
C10_Witness ==
  /\ Rendered /\ ~isLoading /\ requests = <<>> /\ editedImage = None
  /\ originalImage # None
  /\ error = Some(<<"An error occurred: ",
                    "The model did not return an image. Please try a different prompt.">>)

\* C11: when a stream acquisition fails, isCameraOpen is due to be false and
\* error to be the camera-access message, and no update of originalImage,
\* editedImage, prompt and isLoading is made; the next render shows what is
\* due.
C11_AcquisitionFailure ==
  [][/\ \A i \in Indices :
          (mounted /\ AcquireRejects(i))
            => /\ ~Due'.isCameraOpen
               /\ Due'.error = Some(<<"Could not access the camera. Please check permissions and try again.">>)
               /\ Due'.originalImage = Due.originalImage
               /\ Due'.editedImage = Due.editedImage
               /\ Due'.isLoading = Due.isLoading
               /\ prompt' = prompt
     /\ QueuedThenRendered]_vars

\* C11 witness: the only acquisition made has failed; the camera is closed,
\* the camera-access message is shown and the image held is still there.
C11_Witness ==
  /\ Rendered /\ ~isCameraOpen /\ originalImage # None
  /\ Len(streams) = 1 /\ streams[1].status = "failed"
  /\ error = Some(<<"Could not access the camera. Please check permissions and try again.">>)

Unstopped == {i \in Indices : streams[i].status = "acquired" /\ streams[i].stops = 0}

\* C12: in every reachable state at most one device stream is acquired and
\* not yet stopped.
C12_OneLiveStream == Cardinality(Unstopped) <= 1

\* C13: the open-camera and cancel-camera actions make no update of
\* originalImage, editedImage, prompt, isLoading and error: they are as
\* they were, the updates that were queued at the time applied.
C13_CameraButtonsFrame ==
  [][(OpenCamera \/ CancelCamera)
       => /\ originalImage' = Due.originalImage
          /\ editedImage' = Due.editedImage
          /\ isLoading' = Due.isLoading
          /\ error' = Due.error
          /\ prompt' = prompt]_vars

\* C13 witness: the camera is open, its acquisition still pending, and the
\* image and the edited result held before it was opened are still held.
C13_Witness ==
  /\ mounted /\ isCameraOpen /\ reads = <<>> /\ requests = <<>>
  /\ originalImage # None /\ editedImage # None
  /\ streams[Len(streams)].status = "pending"

\* C14: in every reachable state in which isLoading is true, editedImage is
\* absent.
C14_NoResultWhileLoading == isLoading => editedImage = None

\* C14 witness: a request is loading and no edited result is held.
C14_Witness ==
  /\ mounted /\ isLoading /\ Len(requests) = 1 /\ editedImage = None /\ error = None

\* C15: in every state of the mounted component in which error is set, a
\* file can be selected and the camera opened (as far as the bounds on
\* pending reads and on acquisitions allow), isLoading is false or due to
\* be false once no request is in flight, and submit-edit is enabled
\* whenever, no request being in flight and no update queued, originalImage
\* is present.
C15_NoErrorIsFatal ==
  (mounted /\ error # None)
    => /\ \A f \in Files :
            (IsImageFile(f) => Len(reads) < MaxReads) => ENABLED handleFileChange(Some(f))
       /\ (isCameraOpen \/ Len(streams) < MaxStreams) => ENABLED OpenCamera
       /\ requests = <<>> => ~Due.isLoading
       /\ (requests = <<>> /\ queued = NoUpdates) => ~isLoading
       /\ (requests = <<>> /\ queued = NoUpdates /\ originalImage # None)
            => ENABLED ClickGenerate

\* C15 witness: after a camera-access failure with an image held and no
\* request in flight, the camera can be opened again and an edit submitted.
C15_Witness ==
  /\ Rendered /\ requests = <<>> /\ originalImage # None
  /\ error = Some(<<"Could not access the camera. Please check permissions and try again.">>)
  /\ ENABLED OpenCamera /\ Len(streams) < MaxStreams
  /\ ENABLED ClickGenerate

\* The text of s after its first comma.
AfterFirstComma(s) ==
  LET c == CHOOSE j \in 1..Len(s) : s[j] = "," /\ \A k \in 1..(j - 1) : s[k] # ","
  IN [k \in 1..(Len(s) - c) |-> s[c + k]]

\* C16: when the read of a valid image file succeeds, the originalImage due
\* to be stored, and stored by the next render, has the file's declared
\* type as mimeType, the file's name as name, and as data the text of the
\* read data URL after its first comma.
C16_StoredImageOfFile ==
  [][/\ \A i \in 1..Len(reads) :
          (mounted /\ ReadSettles(i, TRUE))
            => /\ Due'.originalImage # None
               /\ Due'.originalImage[1].mimeType = reads[i].type
               /\ Due'.originalImage[1].name = <<reads[i].name>>
               /\ Due'.originalImage[1].base64 = Some(AfterFirstComma(reads[i].url))
     /\ QueuedThenRendered]_vars

\* C16 witness: cat.gif has been read and stored.
C16_Witness ==
  /\ Rendered /\ reads = <<>>
  /\ originalImage = Some([base64 |-> Some(<<"R0lGOD">>), mimeType |-> <<"image/", "gif">>,
                           name |-> <<"cat.gif">>])

\* C17: an edited result is displayed only next to the original it was
\* requested for: a request whose result is stored was submitted for the
\* originalImage due at that moment, and originalImage is never replaced
\* while an edited result stays displayed.
C17_ResultBelongsToOriginal ==
  [][/\ \A i \in 1..Len(requests), o \in EditOutcomes :
          (mounted /\ EditSettles(i, o) /\ Due'.editedImage # None)
            => /\ Due.originalImage # None
               /\ Due.originalImage[1].base64 = requests[i].base64
               /\ Due.originalImage[1].mimeType = requests[i].mimeType
     /\ (originalImage' # originalImage) => editedImage' = None]_vars

\* C18: a file read that completes after the image of a later selection, or
\* a photo captured later, has been stored does not change the originalImage
\* that is due.
C18_LateReadKeepsLaterImage ==
  [][\A i \in 1..Len(reads), ok \in BOOLEAN :
       (mounted /\ ReadSettles(i, ok) /\ readStale[i])
         => Due'.originalImage = Due.originalImage]_vars

\* The acquisition made by the camera session that is open now: the last
\* getUserMedia call.
CurrentAcquisition == Len(streams)

\* C19: the outcome of an acquisition made by an earlier camera session
\* does not touch the session that is open now: its failure makes no update
\* that closes the camera, and its stream is not attached as the open
\* session's stream.
C19_OutcomeStaysInSession ==
  [][\A i \in Indices :
       (mounted /\ isCameraOpen /\ Due.isCameraOpen /\ i # CurrentAcquisition)
         => /\ AcquireRejects(i) => Due'.isCameraOpen
            /\ AcquireResolves(i) => (streamRef' # Some(i) /\ videoSrc' # Some(i))]_vars

\* C20: a snap-photo taken while the camera is open and no stream is
\* attached to the preview stores no originalImage and does not enable
\* submit-edit.
C20_NoPhotoWithoutStream ==
  [][\A frame \in {None} \cup {Some(fr) : fr \in Frames}, now \in Times :
       (handleTakePhoto(frame, now) /\ videoSrc = None)
         => /\ originalImage' = Due.originalImage
            /\ ((Due.isLoading \/ Due.originalImage = None) => GenerateDisabled')]_vars
====
